---------------------------- MODULE Spec2Model ----------------------------
(***************************************************************************)
(* A model of tlpipe's beam models (tlpipe/core/tl_array.py: the dish and  *)
(* the cylinder beam) and of the baseline selection, the visibility        *)
(* conditioning, the cropping and the shared axis limits of the waterfall  *)
(* and time-stream plotting tasks (tlpipe/plot/plot_waterfall.py).         *)
(*                                                                         *)
(* Arrays are numpy arrays: a shape (a sequence of dimensions) and a       *)
(* function from index tuples to elements.  Indices are 1-based here and   *)
(* 0-based in the source.                                                  *)
(***************************************************************************)
EXTENDS Integers, Sequences, FiniteSets, TLC

VARIABLES
    \* ---- CylinderBeam and DsihBeam (tl_array.py)
    bpc,          \* "new" | "constructed" | "returned" | "dish"
    self_freqs,   \* self.freqs, the array built by np.array([freqs])
    self_width,   \* self.width
    self_length,  \* self.length
    xyz,          \* the argument of the last response call
    resp,         \* what the last response call returned or raised
    arg_freqs,    \* DsihBeam.__init__'s freqs argument, in MHz
    arg_diameter, \* DsihBeam.__init__'s diameter argument, in m
    self_xwidth,  \* the xwidth handed to Beam2DGaussian.__init__
    self_ywidth   \* the ywidth handed to Beam2DGaussian.__init__

bvars == <<bpc, self_freqs, self_width, self_length, xyz, resp,
           arg_freqs, arg_diameter, self_xwidth, self_ywidth>>

\* ---- the plotting tasks (plot_waterfall.py)
VARIABLES
    task,            \* "Plot" | "PlotMeerKAT" | "PlotVvsTime" |
                     \* "PlotPointingvsTime"
    bl_incl,         \* self.params['bl_incl']
    bl_excl,         \* self.params['bl_excl']
    flag_mask,       \* self.params['flag_mask']
    flag_ns,         \* self.params['flag_ns']
    interpolate_ns,  \* self.params['interpolate_ns']
    self_xmin,       \* PlotTimeStream.xmin
    self_xmax,       \* PlotTimeStream.xmax
    pc,              \* "idle": no call yet; "done": a plot call with a
                     \* conditioning step has ended; "again": its conditioning
                     \* was applied once more; "pointed": a call of
                     \* PlotPointingvsTime.plot has ended
    arg_vis,         \* the caller's visibility array, as it is now
    arg_mask,        \* the caller's mask array, as it is now
    ts_ns_on,        \* ts['ns_on'], as it is now (or absent)
    in_vis,          \* arg_vis when the call was made
    in_mask,         \* arg_mask when the call was made
    in_ns,           \* ts_ns_on when the call was made
    in_bl,           \* the call's baseline: bl as it stands at line 117
    loc_vis,         \* the local vis that enters the conditioning step
    vis1,            \* the conditioned array, when the step ended normally
    raised,          \* the exception the call ended with, or "none"
    drawn            \* what the call handed to the axes

pvars == <<task, bl_incl, bl_excl, flag_mask, flag_ns, interpolate_ns,
           self_xmin, self_xmax>>
cvars == <<pc, arg_vis, arg_mask, ts_ns_on, in_vis, in_mask, in_ns, in_bl,
           loc_vis, vis1, raised, drawn>>

vars == <<bvars, pvars, cvars>>

(***************************************************************************)
(* Bounds of the model.                                                    *)
(***************************************************************************)
MaxFreqs == 3     \* most configured frequencies
MaxDirs == 3      \* most direction vectors in one response call
NTime == 5        \* time samples of a visibility array
NFreq == 2        \* frequency channels of a visibility array

(***************************************************************************)
(* numpy arrays: shapes, index tuples, broadcasting.                       *)
(***************************************************************************)
NoArray == [dtype |-> "none"]

RECURSIVE Idx(_)
Idx(shape) ==
    IF shape = <<>> THEN {<<>>}
    ELSE {<<i>> \o r : i \in 1..Head(shape), r \in Idx(Tail(shape))}

Max2(a, b) == IF a >= b THEN a ELSE b

\* shape s padded on the left with 1s to n dimensions
PadShape(s, n) ==
    [k \in 1..n |-> IF k <= n - Len(s) THEN 1 ELSE s[k - (n - Len(s))]]

BroadcastOK(s1, s2) ==
    LET n == Max2(Len(s1), Len(s2))
        a == PadShape(s1, n)
        b == PadShape(s2, n)
    IN \A k \in 1..n : a[k] = b[k] \/ a[k] = 1 \/ b[k] = 1

BroadcastShape(s1, s2) ==
    LET n == Max2(Len(s1), Len(s2))
        a == PadShape(s1, n)
        b == PadShape(s2, n)
    IN [k \in 1..n |-> IF a[k] = 1 THEN b[k] ELSE a[k]]

\* the operand index that the element idx of a broadcast result reads
BroadcastIndex(shape, idx) ==
    LET off == Len(idx) - Len(shape)
    IN [k \in 1..Len(shape) |-> IF shape[k] = 1 THEN 1 ELSE idx[k + off]]

(***************************************************************************)
(* Numbers.  Direction components, widths and frequencies are integers;    *)
(* a frequency f stands for the frequency whose wavelength is 2/f metres,  *)
(* so that width * nu / lmbda = width * nu * f / 2 is a multiple of 1/2.   *)
(* Responses are in thousandths (1000 is 1.0).                             *)
(***************************************************************************)
Abs(n) == IF n < 0 THEN -n ELSE n

\* np.sinc(h / 2) in thousandths: sin(pi x) / (pi x), pi taken as 355/113
Sinc(h) ==
    IF h = 0 THEN 1000
    ELSE IF h % 2 = 0 THEN 0
    ELSE LET a == Abs(h)
             mag == (2000 * 113) \div (355 * a)
         IN IF ((a - 1) \div 2) % 2 = 0 THEN mag ELSE -mag

\* np.sinc(1.0e-60 * nv / lmbda): for an argument this small sin(y) / y is
\* 1.0 in floating point, whatever nv and the frequency are
SincFactor(nv, f) == 1000

vec_z == <<0, 0, 1>>
vec_u == <<1, 0, 0>>
vec_v == <<0, 1, 0>>

\* np.dot(vec_n, e) for vec_n of shape (3,) or (M, 3) and e of shape (3,)
Dot(vec_n, e) ==
    LET s == vec_n.shape
        out == SubSeq(s, 1, Len(s) - 1)
    IN [shape |-> out,
        at |-> [i \in Idx(out) |->
                  vec_n.at[i \o <<1>>] * e[1] + vec_n.at[i \o <<2>>] * e[2]
                  + vec_n.at[i \o <<3>>] * e[3]]]

\* np.where(nz <= 0.0, 0.0, nz), one element
MaskHorizonNone(nz) == nz
MaskHorizon(nz) == IF nz <= 0 THEN 0 ELSE nz

\* np.array([freqs]): one row holding the N frequencies
FreqArray(freqs) ==
    [shape |-> <<1, Len(freqs)>>,
     at |-> [i \in Idx(<<1, Len(freqs)>>) |-> freqs[i[2]]]]

\* np.array(xyz) for one vector (shape (3,)) or a list of vectors (M, 3)
VecArray(v) == [shape |-> <<3>>, at |-> [i \in Idx(<<3>>) |-> v[i[1]]]]
VecsArray(vs) ==
    [shape |-> <<Len(vs), 3>>,
     at |-> [i \in Idx(<<Len(vs), 3>>) |-> vs[i[1]][i[2]]]]

\* CylinderBeam.response
Response(freqs, width, vec_n) ==
    LET nz == Dot(vec_n, vec_z)
        nu == Dot(vec_n, vec_u)
        nv == Dot(vec_n, vec_v)
        s == BroadcastShape(nu.shape, freqs.shape)
    IN IF ~BroadcastOK(nu.shape, freqs.shape)
       THEN [err |-> "ValueError"]
       ELSE [err |-> "none",
             shape |-> s,
             at |-> [i \in Idx(s) |->
                LET d == BroadcastIndex(nu.shape, i)
                    f == freqs.at[BroadcastIndex(freqs.shape, i)]
                IN ((Sinc(width * nu.at[d] * f) * SincFactor(nv.at[d], f))
                      \div 1000) * MaskHorizon(nz.at[d])]]

(***************************************************************************)
(* The inputs the model draws from.                                        *)
(***************************************************************************)
FreqVals == {1, 2}
WidthVals == {1, 3}
DirVals == {<<0, 0, 1>>, <<1, 0, 2>>, <<0, 1, 0>>, <<1, 0, -1>>,
            <<0, 0, -2>>, <<1, 1, 1>>}

RECURSIVE SeqsUpTo(_, _)
SeqsUpTo(S, n) ==
    IF n = 0 THEN {<<>>}
    ELSE LET r == SeqsUpTo(S, n - 1)
         IN r \cup {Append(q, e) : q \in {p \in r : Len(p) = n - 1}, e \in S}

NonEmptySeqs(S, n) == SeqsUpTo(S, n) \ {<<>>}

(***************************************************************************)
(* Visibility samples.  A scalar is a number, the not-a-number sentinel or *)
(* the value of a spline at a point; a complex sample is a pair of         *)
(* scalars.  An element of a "real" array is a scalar, an element of a     *)
(* "complex" array is a complex sample.                                    *)
(***************************************************************************)
Num(v) == [k |-> "num", v |-> v]
NaN == [k |-> "nan"]
Cplx(re, im) == [re |-> re, im |-> im]

\* complex(np.nan, np.nan)
ComplexNaN == Cplx(NaN, NaN)

\* largest r with r * r <= n
RECURSIVE IsqrtFrom(_, _)
IsqrtFrom(n, r) == IF (r + 1) * (r + 1) > n THEN r ELSE IsqrtFrom(n, r + 1)
Isqrt(n) == IsqrtFrom(n, 0)

Neg(s) == IF s.k = "num" THEN Num(-s.v) ELSE s

\* x.real, x.imag of one element of an array of the given dtype
RealPart(dtype, x) == IF dtype = "complex" THEN x.re ELSE x
ImagPart(dtype, x) == IF dtype = "complex" THEN x.im ELSE Num(0)

\* vis.conj()
Conj(a) ==
    IF a.dtype = "complex"
    THEN [a EXCEPT !.at = [i \in DOMAIN a.at |-> Cplx(a.at[i].re, Neg(a.at[i].im))]]
    ELSE a

\* np.abs(vis) of a complex array: a real array of magnitudes
NpAbs(a) ==
    [dtype |-> "real", shape |-> a.shape,
     at |-> [i \in DOMAIN a.at |->
               IF a.at[i].re.k = "num" /\ a.at[i].im.k = "num"
               THEN Num(Isqrt(a.at[i].re.v * a.at[i].re.v
                              + a.at[i].im.v * a.at[i].im.v))
               ELSE NaN]]

\* number of elements
RECURSIVE Size(_)
Size(shape) == IF shape = <<>> THEN 1 ELSE Head(shape) * Size(Tail(shape))

\* position (from 0) of index tuple i in C order, and back
RECURSIVE FlatIndex(_, _)
FlatIndex(shape, i) ==
    IF shape = <<>> THEN 0
    ELSE (Head(i) - 1) * Size(Tail(shape)) + FlatIndex(Tail(shape), Tail(i))

\* np.reshape(a, shape): same elements in C order
Reshape(a, shape) ==
    [a EXCEPT !.shape = shape,
              !.at = [i \in Idx(shape) |->
                        a.at[CHOOSE j \in DOMAIN a.at :
                               FlatIndex(a.shape, j) = FlatIndex(shape, i)]]]

\* np.resize(a, shape) of a one-element array: that element everywhere
Resize1(a, shape) ==
    [a EXCEPT !.shape = shape,
              !.at = [i \in Idx(shape) |->
                        a.at[CHOOSE j \in DOMAIN a.at : TRUE]]]

\* np.where(b)[0] of a boolean sequence: the indices holding TRUE, ascending
RECURSIVE SortedSeq(_)
SortedSeq(S) ==
    IF S = {} THEN <<>>
    ELSE LET m == CHOOSE x \in S : \A y \in S : x <= y
         IN <<m>> \o SortedSeq(S \ {m})

WhereTrue(b) == SortedSeq({t \in 1..Len(b) : b[t]})
WhereFalse(b) == SortedSeq({t \in 1..Len(b) : ~b[t]})

SeqSet(q) == {q[k] : k \in 1..Len(q)}

(***************************************************************************)
(* scipy.interpolate.InterpolatedUnivariateSpline(x, y), degree k = 3.     *)
(* The constructor needs more than k points.  The interpolating spline     *)
(* reproduces a straight line exactly; its value on other data is kept as  *)
(* the term (x, y, t): a function of the points it was built from.         *)
(***************************************************************************)
SplineK == 3

\* a constructor that takes any number of points
SplineCtorAny(x) == TRUE
SplineCtorOK(x) == Len(x) > SplineK

IsRamp(x, y) ==
    /\ Len(x) >= 2
    /\ \A i \in 1..Len(y) : y[i].k = "num"
    /\ LET dy == y[2].v - y[1].v
           dx == x[2] - x[1]
       IN /\ dy % dx = 0
          /\ \A i \in 1..Len(x) : y[i].v = y[1].v + (dy \div dx) * (x[i] - x[1])

SplineEval(x, y, t) ==
    IF IsRamp(x, y)
    THEN Num(y[1].v + ((y[2].v - y[1].v) \div (x[2] - x[1])) * (t - x[1]))
    ELSE [k |-> "spl", x |-> x, y |-> y, t |-> t]

(***************************************************************************)
(* The conditioning step.  The arrays a call can touch live in a heap:     *)
(* arg (the caller's vis), new (the array vis.conj() or np.abs(vis) made), *)
(* copy (vis.copy()), mask (the caller's mask), ns (ts['ns_on']).  A local *)
(* variable holds the name of the array it refers to.                      *)
(***************************************************************************)
\* an error that hands back the working copy as far as it was written
OutcomePartial(h, v1, e) ==
    [heap |-> h,
     vis1 |-> IF e # "none" /\ h.copy.dtype # "none"
              THEN [kind |-> "ndarray", ref |-> "copy"] ELSE v1,
     raised |-> e]
Outcome(h, v1, e) == [heap |-> h, vis1 |-> v1, raised |-> e]

NoVis1 == [kind |-> "none"]
NdArray(ref) == [kind |-> "ndarray", ref |-> ref]

\* vis.copy(): a new array holding the same elements
VisCopyAlias(h, ref) == [heap |-> h, ref |-> ref]
VisCopy(h, ref) == [heap |-> [h EXCEPT !.copy = h[ref]], ref |-> "copy"]

\* np.ma.array(vis, mask=vis_mask): the data is shared with vis
MaArray(h, ref) ==
    LET d == h[ref]
        m == h.mask
    IN IF m.shape = d.shape
       THEN Outcome(h, [kind |-> "ma", ref |-> ref, mask |-> m], "none")
       ELSE IF Size(m.shape) = 1
       THEN Outcome(h, [kind |-> "ma", ref |-> ref,
                        mask |-> Resize1(m, d.shape)], "none")
       ELSE IF Size(m.shape) = Size(d.shape)
       THEN Outcome(h, [kind |-> "ma", ref |-> ref,
                        mask |-> Reshape(m, d.shape)], "none")
       ELSE Outcome(h, NoVis1, "MaskError")

\* a[on] = v for a list of row indices
SetRows(a, on, v) ==
    [a EXCEPT !.at = [i \in DOMAIN a.at |-> IF i[1] \in on THEN v ELSE a.at[i]]]

\* vis1[on] = complex(np.nan, np.nan)
FlagRows(h, ref, on) ==
    IF h[ref].dtype = "real"
    THEN Outcome(h, NoVis1, "TypeError")
    ELSE IF \E t \in SeqSet(on) : t > h[ref].shape[1]
    THEN Outcome(h, NoVis1, "IndexError")
    ELSE Outcome([h EXCEPT ![ref] = SetRows(h[ref], SeqSet(on), ComplexNaN)],
                 NdArray(ref), "none")

\* vis1[off, fi].real and .imag: the column fi at the rows off
\* the first channel's column, whatever fi is
ColumnRealFirst(a, rows, fi) ==
    [k \in 1..Len(rows) |-> RealPart(a.dtype, a.at[<<rows[k], 1>>])]
ColumnReal(a, rows, fi) ==
    [k \in 1..Len(rows) |-> RealPart(a.dtype, a.at[<<rows[k], fi>>])]
ColumnImag(a, rows, fi) ==
    [k \in 1..Len(rows) |-> ImagPart(a.dtype, a.at[<<rows[k], fi>>])]

\* an assignment that writes every row of the column, not the rows on
SetColumnEveryRow(a, on, off, fi, yr, yi) ==
    [a EXCEPT !.at = [i \in DOMAIN a.at |->
        IF i[2] = fi
        THEN IF a.dtype = "complex"
             THEN Cplx(SplineEval(off, yr, i[1]), SplineEval(off, yi, i[1]))
             ELSE SplineEval(off, yr, i[1])
        ELSE a.at[i]]]

\* vis1[on, fi] = itp_real(on) + 1.0J * itp_imag(on); a real array keeps
\* the real part
SetColumn(a, on, off, fi, yr, yi) ==
    [a EXCEPT !.at = [i \in DOMAIN a.at |->
        IF i[1] \in SeqSet(on) /\ i[2] = fi
        THEN IF a.dtype = "complex"
             THEN Cplx(SplineEval(off, yr, i[1]), SplineEval(off, yi, i[1]))
             ELSE SplineEval(off, yr, i[1])
        ELSE a.at[i]]]

\* for fi in xrange(vis1.shape[1]): ...
RECURSIVE InterpolateFrom(_, _, _, _, _)
InterpolateFrom(h, ref, on, off, fi) ==
    LET a == h[ref]
    IN IF fi > a.shape[2]
       THEN Outcome(h, NdArray(ref), "none")
       ELSE IF \E t \in SeqSet(off) : t > a.shape[1]
       THEN Outcome(h, NoVis1, "IndexError")
       ELSE IF ~SplineCtorOK(off)
       THEN Outcome(h, NoVis1, "SplineError")
       ELSE IF \E t \in SeqSet(on) : t > a.shape[1]
       THEN Outcome(h, NoVis1, "IndexError")
       ELSE InterpolateFrom(
              [h EXCEPT ![ref] = SetColumn(a, on, off, fi,
                                           ColumnReal(a, off, fi),
                                           ColumnImag(a, off, fi))],
              ref, on, off, fi + 1)

\* the branches with the flag_ns test left out
Plot_condition_NoNsTest(h, vis, fm, fn, itp) ==
    IF fm THEN MaArray(h, vis)
    ELSE IF h.ns.present
    THEN LET c == VisCopy(h, vis)
             on == WhereTrue(h.ns.v)
         IN IF ~itp
            THEN FlagRows(c.heap, c.ref, on)
            ELSE InterpolateFrom(c.heap, c.ref, on, WhereFalse(h.ns.v), 1)
    ELSE Outcome(h, NdArray(vis), "none")

\* the branches with flag_ns tested before flag_mask
Plot_condition_NsFirst(h, vis, fm, fn, itp) ==
    IF fn /\ h.ns.present
    THEN LET c == VisCopy(h, vis)
             on == WhereTrue(h.ns.v)
         IN IF ~itp
            THEN FlagRows(c.heap, c.ref, on)
            ELSE InterpolateFrom(c.heap, c.ref, on, WhereFalse(h.ns.v), 1)
    ELSE IF fm THEN MaArray(h, vis)
    ELSE Outcome(h, NdArray(vis), "none")

\* the branches without the test for 'ns_on': ts['ns_on'] of a timestream
\* that has none raises KeyError
Plot_condition_NoKeyTest(h, vis, fm, fn, itp) ==
    IF fm THEN MaArray(h, vis)
    ELSE IF fn
    THEN LET c == VisCopy(h, vis)
         IN IF ~h.ns.present
            THEN Outcome(c.heap, NoVis1, "KeyError")
            ELSE IF ~itp
            THEN FlagRows(c.heap, c.ref, WhereTrue(h.ns.v))
            ELSE InterpolateFrom(c.heap, c.ref, WhereTrue(h.ns.v),
                                 WhereFalse(h.ns.v), 1)
    ELSE Outcome(h, NdArray(vis), "none")

\* Plot.plot, the flag_mask / flag_ns / interpolate_ns branches
Plot_condition(h, vis, fm, fn, itp) ==
    IF fm THEN MaArray(h, vis)
    ELSE IF fn
    THEN IF h.ns.present
         THEN LET c == VisCopy(h, vis)
                  on == WhereTrue(h.ns.v)
              IN IF ~itp
                 THEN FlagRows(c.heap, c.ref, on)
                 ELSE InterpolateFrom(c.heap, c.ref, on, WhereFalse(h.ns.v), 1)
         ELSE Outcome(h, NdArray(vis), "none")
    ELSE Outcome(h, NdArray(vis), "none")

\* PlotMeerKAT.plot, the flag_mask / flag_ns branches
PlotMeerKAT_condition(h, vis, fm, fn) ==
    IF fm THEN MaArray(h, vis)
    ELSE IF fn
    THEN IF h.ns.present
         THEN LET c == VisCopy(h, vis)
              IN FlagRows(c.heap, c.ref, WhereTrue(h.ns.v))
         ELSE Outcome(h, NdArray(vis), "none")
    ELSE Outcome(h, NdArray(vis), "none")

\* PlotVvsTime.plot, the flag_mask / flag_ns branches
PlotVvsTime_condition(h, vis, fm, fn) ==
    IF fm THEN MaArray(h, vis)
    ELSE IF fn
    THEN IF h.ns.present
         THEN LET c == VisCopy(h, vis)
              IN FlagRows(c.heap, c.ref, WhereTrue(h.ns.v))
         ELSE Outcome(h, NdArray(vis), "none")
    ELSE Outcome(h, NdArray(vis), "none")

(***************************************************************************)
(* Cropping to the not-fully-masked range and the per-time means of        *)
(* PlotMeerKAT.plot and PlotVvsTime.plot.                                  *)
(***************************************************************************)
NPol == 2       \* vis1[:, :, 0] and vis1[:, :, 1]

\* np.all(vis_mask, axis=(1, 2)) and np.all(vis_mask, axis=(0, 2))
BadTime(m) ==
    [t \in 1..m.shape[1] |->
       \A f \in 1..m.shape[2], p \in 1..m.shape[3] : m.at[<<t, f, p>>]]
BadFreq(m) ==
    [f \in 1..m.shape[2] |->
       \A t \in 1..m.shape[1], p \in 1..m.shape[3] : m.at[<<t, f, p>>]]

\* np.argwhere(~bad)[0, 0] and np.argwhere(~bad)[-1, 0]
HasGood(bad) == \E k \in 1..Len(bad) : ~bad[k]
GoodSt(bad) == CHOOSE k \in 1..Len(bad) : ~bad[k] /\ \A j \in 1..(k - 1) : bad[j]
GoodEd(bad) == CHOOSE k \in 1..Len(bad) : ~bad[k] /\ \A j \in (k + 1)..Len(bad) : bad[j]

\* the indices the slice [st:ed] keeps
Slice(st, ed) == st..(ed - 1)

RECURSIVE SumOver(_, _)
SumOver(S, val) ==
    IF S = {} THEN 0
    ELSE LET e == CHOOSE x \in S : TRUE IN val[e] + SumOver(S \ {e}, val)

Masked == [k |-> "masked"]
Mean(sum, n) == [k |-> "mean", sum |-> sum, n |-> n]

\* a mean that counts a masked sample as 0
RowMeanFilled(h, v1, t, fs, p) ==
    LET a == h[v1.ref]
        live == IF v1.kind = "ma"
                THEN {f \in fs : ~v1.mask.at[<<t, f, p>>]}
                ELSE fs
    IN IF fs = {} THEN NaN
       ELSE Mean(SumOver(live, [f \in live |-> a.at[<<t, f, p>>].v]), Cardinality(fs))

\* np.ma.mean(vis1[:, :, p], axis=1) at time t, over the kept frequencies
RowMean(h, v1, t, fs, p) ==
    LET a == h[v1.ref]
        live == IF v1.kind = "ma"
                THEN {f \in fs : ~v1.mask.at[<<t, f, p>>]}
                ELSE fs
        val == [f \in live |-> a.at[<<t, f, p>>]]
    IN IF live = {} THEN (IF v1.kind = "ma" THEN Masked ELSE NaN)
       ELSE IF \E f \in live : val[f].k # "num" THEN NaN
       ELSE Mean(SumOver(live, [f \in live |-> val[f].v]), Cardinality(live))

NoDraw == [kind |-> "nothing"]

(***************************************************************************)
(* The arrays a plot call is given.                                        *)
(***************************************************************************)
Vis2(kind) ==
    [dtype |-> IF kind = "real" THEN "real" ELSE "complex",
     shape |-> <<NTime, NFreq>>,
     at |-> [i \in Idx(<<NTime, NFreq>>) |->
               LET t == i[1]
                   f == i[2]
               IN CASE kind = "ramp" -> Cplx(Num(f * t + 1), Num(2 * t - f))
                    [] kind = "quad" -> Cplx(Num(t * t + f), Num(f - t))
                    [] OTHER -> Num(3 * t + f)]]

Vis2Inputs == {Vis2(k) : k \in {"ramp", "quad", "real"}}

Vis3(kind) ==
    [dtype |-> IF kind = "real" THEN "real" ELSE "complex",
     shape |-> <<NTime, NFreq, NPol>>,
     at |-> [i \in Idx(<<NTime, NFreq, NPol>>) |->
               LET n == i[1] + 2 * i[2] + i[3]
               IN IF kind = "real" THEN Num(n) ELSE Cplx(Num(3 * n), Num(-4 * n))]]

Vis3Inputs == {Vis3(k) : k \in {"cplx", "real"}}

BoolArray(shape, P(_)) ==
    [dtype |-> "bool", shape |-> shape, at |-> [i \in Idx(shape) |-> P(i)]]

\* masks for a (time, freq) array: four of its shape, three of another
Mask2Inputs ==
    { BoolArray(<<NTime, NFreq>>, LAMBDA i : FALSE),
      BoolArray(<<NTime, NFreq>>, LAMBDA i : i[2] = 1),
      BoolArray(<<NTime, NFreq>>, LAMBDA i : i[1] = 2 /\ i[2] = NFreq),
      BoolArray(<<NTime, NFreq>>, LAMBDA i : TRUE),
      BoolArray(<<NFreq, NTime>>, LAMBDA i : i[1] = 1),
      BoolArray(<<1>>, LAMBDA i : TRUE),
      BoolArray(<<NTime + 1>>, LAMBDA i : i[1] = 1) }

\* masks for a (time, freq, pol) array: fully masked times bt and channels
\* bf, and the first polarization masked at time rp
Mask3(bt, bf, rp) ==
    BoolArray(<<NTime, NFreq, NPol>>,
              LAMBDA i : i[1] \in bt \/ i[2] \in bf \/ (i[1] = rp /\ i[3] = 1))

Mask3Inputs ==
    { Mask3(bt, bf, rp) :
        bt \in {{}, {1}, {NTime}, {1, 3}, 1..(NTime - 1), 1..NTime},
        bf \in {{}, {1}, {NFreq}},
        rp \in {0, 2} }

NoNs == [present |-> FALSE]
Ns(q) == [present |-> TRUE, v |-> q]

BoolSeqs(n) == [1..n -> BOOLEAN]

\* ts['ns_on']: absent, or of the time dimension, or one shorter, or one
\* longer (a few of those)
NsInputs ==
    {NoNs}
    \cup {Ns(q) : q \in BoolSeqs(NTime - 1) \cup BoolSeqs(NTime)}
    \cup {Ns([t \in 1..(NTime + 1) |-> IF t = NTime + 1 THEN b ELSE t \in on]) :
             b \in BOOLEAN, on \in {{}, {1}, 1..NTime}}

Ns3Inputs ==
    {NoNs, Ns([t \in 1..NTime |-> FALSE]), Ns([t \in 1..NTime |-> t % 2 = 0]),
     Ns([t \in 1..(NTime - 1) |-> t = 1])}

(***************************************************************************)
(* CylinderBeam: construction and response.                                *)
(***************************************************************************)
BeamIdle ==
    /\ bpc = "new"
    /\ self_freqs = NoArray
    /\ self_width = 0
    /\ self_length = 0
    /\ xyz = NoArray
    /\ resp = [err |-> "nocall"]
    /\ arg_freqs = <<>>
    /\ arg_diameter = 0
    /\ self_xwidth = NoArray
    /\ self_ywidth = NoArray

CylinderBeam_init ==
    /\ bpc = "new"
    /\ \E freqs \in NonEmptySeqs(FreqVals, MaxFreqs), w \in WidthVals :
          /\ self_freqs' = FreqArray(freqs)
          /\ self_width' = w
          /\ self_length' = 40
    /\ bpc' = "constructed"
    /\ UNCHANGED <<xyz, resp, arg_freqs, arg_diameter, self_xwidth, self_ywidth>>

CylinderBeam_response ==
    /\ bpc = "constructed"
    /\ \E vec_n \in {VecArray(v) : v \in DirVals}
                    \cup {VecsArray(vs) : vs \in NonEmptySeqs(DirVals, MaxDirs)} :
          /\ xyz' = vec_n
          /\ resp' = Response(self_freqs, self_width, vec_n)
    /\ bpc' = "returned"
    /\ UNCHANGED <<self_freqs, self_width, self_length,
                   arg_freqs, arg_diameter, self_xwidth, self_ywidth>>

(***************************************************************************)
(* DsihBeam: construction.  Frequencies are kept in thousandths of a GHz,  *)
(* wavelengths in mm and beam widths in millionths of a radian; a division *)
(* drops the fraction.                                                     *)
(***************************************************************************)
const_c == 300000000     \* const.c, the speed of light in m/s

DishFreqVals == {700, 750, 800}     \* MHz
DiameterVals == {6, 12}             \* m

\* 1.0e9 * freqs: Hz, from thousandths of a GHz
HzOfMilliGHz(g) == 1000000 * g

\* lmbda = const.c / (1.0e9 * freqs), one element, in mm
Wavelength(g) == const_c \div (HzOfMilliGHz(g) \div 1000)

\* a width without the factor 1.22
XWidthPlain(lmbda, diameter) == (1000 * lmbda) \div diameter
\* xwidth = 1.22 * lmbda / diameter, one element, in millionths of a radian
XWidth(lmbda, diameter) == (1220 * lmbda) \div diameter

DsihBeam_init ==
    /\ bpc = "new"
    /\ \E fs \in NonEmptySeqs(DishFreqVals, MaxFreqs), diameter \in DiameterVals :
          LET freqs == FreqArray(fs)     \* 1.0e-3 * np.array([freqs])
              xwidth == [shape |-> freqs.shape,
                         at |-> [i \in DOMAIN freqs.at |->
                                   XWidth(Wavelength(freqs.at[i]), diameter)]]
              ywidth == xwidth
          IN /\ arg_freqs' = fs
             /\ arg_diameter' = diameter
             /\ self_freqs' = freqs
             /\ self_xwidth' = xwidth
             /\ self_ywidth' = ywidth
    /\ bpc' = "dish"
    /\ UNCHANGED <<self_width, self_length, xyz, resp>>

(***************************************************************************)
(* The plotting tasks: one plot call per baseline.                         *)
(***************************************************************************)
XMinInit == 1000000     \* self.xmin =  1.e19: above every x value
XMaxInit == -1000000    \* self.xmax = -1.e19: below every x value

\* min([xmin, self.xmin])
\* the new limit alone, the old one dropped
Min2First(a, b) == a
\* the old limit kept, the new one dropped
Min2Second(a, b) == b
Min2(a, b) == IF a <= b THEN a ELSE b

\* x_axis = np.arange(n) (plot_index), or the increasing date numbers
XAxis(n) == [t \in 1..n |-> t - 1]

\* 'bl_incl': 'all', or a list of (bl1, bl2)
BlAll == [k |-> "all"]
BlList(q) == [k |-> "list", v |-> q]

\* the baseline of a call, and no baseline
DefaultBl == <<1, 2>>
NoBl == <<>>

BlInputs == {<<1, 2>>, <<2, 1>>, <<1, 1>>, <<1, 3>>}
BlInclInputs == {BlAll, BlList(<<>>), BlList(<< <<1, 2>> >>),
                 BlList(<< <<2, 1>>, <<1, 1>> >>)}
BlExclInputs == {<<>>, << <<1, 2>> >>, << <<2, 1>>, <<3, 1>> >>}

\* [ {f1, f2} for (f1, f2) in bl_incl ]
PairSets(q) == [k \in 1..Len(q) |-> {q[k][1], q[k][2]}]

\* if bl_incl != 'all': ... if (not bl1 in bl_incl) or (bl1 in bl_excl): return
Plot_skips(bl, incl, excl) ==
    /\ incl # BlAll
    /\ LET bl1 == {bl[1], bl[2]}
       IN \/ bl1 \notin SeqSet(PairSets(incl.v))
          \/ bl1 \in SeqSet(PairSets(excl))

CallIdle ==
    /\ pc = "idle"
    /\ in_bl = NoBl
    /\ arg_vis = NoArray
    /\ arg_mask = NoArray
    /\ ts_ns_on = NoNs
    /\ in_vis = NoArray
    /\ in_mask = NoArray
    /\ in_ns = NoNs
    /\ loc_vis = NoArray
    /\ vis1 = NoVis1
    /\ raised = "none"
    /\ drawn = NoDraw

TaskIdle ==
    /\ task = "none"
    /\ bl_incl = BlAll
    /\ bl_excl = <<>>
    /\ flag_mask = FALSE
    /\ flag_ns = FALSE
    /\ interpolate_ns = FALSE
    /\ self_xmin = XMinInit
    /\ self_xmax = XMaxInit
    /\ CallIdle

\* the heap a call starts with
Heap(v, fresh, m, ns) ==
    [arg |-> v, new |-> fresh, copy |-> NoArray, mask |-> m, ns |-> ns]

\* vis1 with the array it refers to
Resolved(h, v1) ==
    IF v1.kind = "ndarray"
    THEN [kind |-> "ndarray", ref |-> v1.ref, arr |-> h[v1.ref]]
    ELSE IF v1.kind = "ma"
    THEN [kind |-> "ma", ref |-> v1.ref, arr |-> h[v1.ref], mask |-> v1.mask]
    ELSE NoVis1

\* the call's inputs and what it left behind
Ended(v, m, ns, loc, r, err, drw) ==
    /\ in_vis' = v
    /\ in_mask' = m
    /\ in_ns' = ns
    /\ arg_vis' = r.heap.arg
    /\ arg_mask' = r.heap.mask
    /\ ts_ns_on' = r.heap.ns
    /\ loc_vis' = loc
    /\ vis1' = Resolved(r.heap, r.vis1)
    /\ raised' = err
    /\ drawn' = drw
    /\ pc' = "done"

\* Plot.plot called with the array v, the mask m, the timestream's ns_on and
\* the baseline bl; swap: the feeds are reordered and vis conjugated
Plot_run(v, m, ns, swap, bl) ==
    LET h0 == Heap(v, IF swap THEN Conj(v) ELSE NoArray, m, ns)
        vis == IF swap THEN "new" ELSE "arg"
        r == Plot_condition(h0, vis, flag_mask, flag_ns, interpolate_ns)
    IN /\ in_bl' = bl
       /\ IF Plot_skips(bl, bl_incl, bl_excl)
          THEN Ended(v, m, ns, h0[vis], Outcome(h0, NoVis1, "none"),
                     "none", NoDraw)
          ELSE Ended(v, m, ns, h0[vis], r, r.raised,
                     IF r.raised = "none" THEN [kind |-> "imshow"] ELSE NoDraw)

\* Plot.plot
Plot_plot ==
    /\ task = "Plot"
    /\ pc = "idle"
    /\ \E v \in Vis2Inputs, m \in Mask2Inputs, ns \in NsInputs, swap \in BOOLEAN :
          Plot_run(v, m, ns, swap, DefaultBl)
    /\ UNCHANGED <<pvars, bvars>>

\* Plot.plot, over the baselines of BlInputs
Plot_plot_bl ==
    /\ task = "Plot"
    /\ pc = "idle"
    /\ \E v \in {Vis2("ramp")},
          m \in {BoolArray(<<NTime, NFreq>>, LAMBDA i : i[2] = 1)},
          ns \in {NoNs, Ns([t \in 1..NTime |-> t = 1])},
          swap \in BOOLEAN, bl \in BlInputs :
          Plot_run(v, m, ns, swap, bl)
    /\ UNCHANGED <<pvars, bvars>>

\* PlotMeerKAT.plot
PlotMeerKAT_plot ==
    /\ task = "PlotMeerKAT"
    /\ pc = "idle"
    /\ in_bl' = DefaultBl
    /\ \E v \in Vis3Inputs, m \in Mask3Inputs, ns \in Ns3Inputs :
          LET cx == v.dtype = "complex"
              h0 == Heap(v, IF cx THEN NpAbs(v) ELSE NoArray, m, ns)
              vis == IF cx THEN "new" ELSE "arg"
              r == PlotMeerKAT_condition(h0, vis, flag_mask, flag_ns)
              bt == BadTime(r.heap.mask)
              bf == BadFreq(r.heap.mask)
              times == Slice(GoodSt(bt), GoodEd(bt))
              freqs == Slice(GoodSt(bf), GoodEd(bf))
          IN IF r.raised # "none"
             THEN Ended(v, m, ns, h0[vis], r, r.raised, NoDraw)
             ELSE IF ~HasGood(bt) \/ ~HasGood(bf)
             THEN Ended(v, m, ns, h0[vis], r, "IndexError", NoDraw)
             ELSE Ended(v, m, ns, h0[vis], r,
                        IF times = {} \/ freqs = {} THEN "IndexError" ELSE "none",
                        [kind |-> "mesh", times |-> times, freqs |-> freqs])
    /\ UNCHANGED <<pvars, bvars>>

\* PlotVvsTime.plot
PlotVvsTime_plot ==
    /\ task = "PlotVvsTime"
    /\ pc = "idle"
    /\ in_bl' = DefaultBl
    /\ \E v \in Vis3Inputs, m \in Mask3Inputs, ns \in Ns3Inputs :
          LET cx == v.dtype = "complex"
              h0 == Heap(v, IF cx THEN NpAbs(v) ELSE NoArray, m, ns)
              vis == IF cx THEN "new" ELSE "arg"
              r == PlotVvsTime_condition(h0, vis, flag_mask, flag_ns)
              bt == BadTime(r.heap.mask)
              bf == BadFreq(r.heap.mask)
              times == Slice(GoodSt(bt), GoodEd(bt))
              freqs == Slice(GoodSt(bf), GoodEd(bf))
              x_axis == XAxis(NTime)
              lines == [kind |-> "lines", times |-> times, freqs |-> freqs,
                        hh |-> [t \in times |-> RowMean(r.heap, r.vis1, t, freqs, 1)],
                        vv |-> [t \in times |-> RowMean(r.heap, r.vis1, t, freqs, 2)]]
          IN IF r.raised # "none"
             THEN /\ Ended(v, m, ns, h0[vis], r, r.raised, NoDraw)
                  /\ UNCHANGED <<self_xmin, self_xmax>>
             ELSE IF ~HasGood(bt) \/ ~HasGood(bf)
             THEN /\ Ended(v, m, ns, h0[vis], r, "IndexError", NoDraw)
                  /\ UNCHANGED <<self_xmin, self_xmax>>
             ELSE IF times = {}
             THEN /\ Ended(v, m, ns, h0[vis], r, "IndexError", lines)
                  /\ UNCHANGED <<self_xmin, self_xmax>>
             ELSE /\ Ended(v, m, ns, h0[vis], r, "none", lines)
                  /\ self_xmin' = Min2(x_axis[GoodSt(bt)], self_xmin)
                  /\ self_xmax' = Max2(x_axis[GoodEd(bt) - 1], self_xmax)
    /\ UNCHANGED <<task, bl_incl, bl_excl, flag_mask, flag_ns, interpolate_ns,
                   bvars>>

\* ts['az'][:, gi] and ts['el'][:, gi], in degrees
AzInputs == {[t \in 1..NTime |-> 10 * t - 20], [t \in 1..NTime |-> 170 + t * t]}
ElInputs == {[t \in 1..NTime |-> 40 + (t % 3)]}

\* az[az < 0] = az[az < 0] + 360.; az = (az - 180.) * 60.
AzArcmin(a) == ((IF a < 0 THEN a + 360 ELSE a) - 180) * 60

\* PlotPointingvsTime.plot
PlotPointingvsTime_plot ==
    /\ task = "PlotPointingvsTime"
    /\ pc = "idle"
    /\ \E m \in Mask3Inputs, az \in AzInputs, el \in ElInputs :
          LET v == Vis3("real")
              bt == BadTime(m)
              times == Slice(GoodSt(bt), GoodEd(bt))
              x_axis == XAxis(NTime)
              az1 == [t \in times |-> AzArcmin(az[t])]
              \* (el - np.mean(el)) * 60, as a fraction
              el1 == [t \in times |->
                        [num |-> 60 * (Cardinality(times) * el[t]
                                       - SumOver(times, [u \in times |-> el[u]])),
                         den |-> Cardinality(times)]]
              \* az -= np.poly1d(np.polyfit(x_axis, az, 2))(x_axis)
              az2 == [t \in times |->
                        [k |-> "residual", v |-> az1[t],
                         x |-> [u \in times |-> x_axis[u]], y |-> az1]]
              err == IF ~HasGood(bt) THEN "IndexError"
                     ELSE IF times = {} THEN "TypeError"
                     ELSE "none"
          IN /\ in_vis' = v
             /\ arg_vis' = v
             /\ in_mask' = m
             /\ arg_mask' = m
             /\ raised' = err
             /\ drawn' = IF err = "none"
                         THEN [kind |-> "pointing", times |-> times,
                               az |-> az2, el |-> el1]
                         ELSE NoDraw
             /\ IF err = "none"
                THEN /\ self_xmin' = Min2(x_axis[GoodSt(bt)], self_xmin)
                     /\ self_xmax' = Max2(x_axis[GoodEd(bt) - 1], self_xmax)
                ELSE UNCHANGED <<self_xmin, self_xmax>>
    /\ pc' = "pointed"
    /\ in_bl' = DefaultBl
    /\ UNCHANGED <<task, bl_incl, bl_excl, flag_mask, flag_ns, interpolate_ns,
                   bvars, ts_ns_on, in_ns, loc_vis, vis1>>

\* Plot.plot's conditioning applied once more, to the array it made (a copy
\* of vis) with the same mask and ts['ns_on']
Plot_condition_again ==
    /\ task = "Plot"
    /\ pc = "done"
    /\ raised = "none"
    /\ vis1.kind = "ndarray"
    /\ vis1.ref = "copy"
    /\ LET h0 == Heap(vis1.arr, NoArray, in_mask, in_ns)
           r == Plot_condition(h0, "arg", flag_mask, flag_ns, interpolate_ns)
       IN /\ in_vis' = vis1.arr
          /\ arg_vis' = r.heap.arg
          /\ loc_vis' = vis1.arr
          /\ vis1' = Resolved(r.heap, r.vis1)
          /\ raised' = r.raised
          /\ drawn' = IF r.raised = "none" THEN [kind |-> "imshow"] ELSE NoDraw
    /\ pc' = "again"
    /\ UNCHANGED <<arg_mask, ts_ns_on, in_mask, in_ns, in_bl, pvars, bvars>>

\* the orchestration layer moves on to the next baseline
NextBaseline ==
    /\ pc \in {"done", "again", "pointed"}
    /\ pc' = "idle"
    /\ arg_vis' = NoArray
    /\ arg_mask' = NoArray
    /\ ts_ns_on' = NoNs
    /\ in_vis' = NoArray
    /\ in_mask' = NoArray
    /\ in_ns' = NoNs
    /\ in_bl' = NoBl
    /\ loc_vis' = NoArray
    /\ vis1' = NoVis1
    /\ raised' = "none"
    /\ drawn' = NoDraw
    /\ UNCHANGED <<pvars, bvars>>

InitBeam == BeamIdle /\ TaskIdle

NextBeam ==
    \/ DsihBeam_init /\ UNCHANGED <<pvars, cvars>>
    \/ CylinderBeam_init /\ UNCHANGED <<pvars, cvars>>
    \/ CylinderBeam_response /\ UNCHANGED <<pvars, cvars>>

SpecBeam == InitBeam /\ [][NextBeam]_vars

Init ==
    /\ BeamIdle
    /\ bl_incl = BlAll
    /\ bl_excl = <<>>
    /\ task \in {"Plot", "PlotMeerKAT", "PlotVvsTime", "PlotPointingvsTime"}
    /\ flag_mask \in (IF task = "PlotPointingvsTime" THEN {TRUE} ELSE BOOLEAN)
    /\ flag_ns \in (IF task = "PlotPointingvsTime" THEN {FALSE} ELSE BOOLEAN)
    /\ interpolate_ns \in (IF task = "Plot" THEN BOOLEAN ELSE {FALSE})
    /\ self_xmin = XMinInit
    /\ self_xmax = XMaxInit
    /\ CallIdle

Next ==
    \/ Plot_plot
    \/ PlotMeerKAT_plot
    \/ PlotVvsTime_plot
    \/ PlotPointingvsTime_plot
    \/ Plot_condition_again
    \/ NextBaseline

Spec == Init /\ [][Next]_vars

\* a Plot task with a baseline selection
InitBl ==
    /\ BeamIdle
    /\ task = "Plot"
    /\ bl_incl \in BlInclInputs
    /\ bl_excl \in BlExclInputs
    /\ flag_mask \in BOOLEAN
    /\ flag_ns \in BOOLEAN
    /\ interpolate_ns \in BOOLEAN
    /\ self_xmin = XMinInit
    /\ self_xmax = XMaxInit
    /\ CallIdle

NextBl ==
    \/ Plot_plot_bl
    \/ NextBaseline

SpecBl == InitBl /\ [][NextBl]_vars

(***************************************************************************)
(* Properties of CylinderBeam.response, checked under SpecBeam.            *)
(***************************************************************************)
\* the output cells that hold direction d at frequency j
BeamCells(d, j) ==
    {i \in Idx(resp.shape) :
        /\ BroadcastIndex(SubSeq(xyz.shape, 1, Len(xyz.shape) - 1), i) = d
        /\ BroadcastIndex(self_freqs.shape, i) = <<1, j>>}

BeamDirs == Idx(SubSeq(xyz.shape, 1, Len(xyz.shape) - 1))
BeamNz(d) == xyz.at[d \o <<3>>]

\* C1: whenever response returns, every output cell of a direction whose Up
\* component is <= 0 is exactly 0, every direction still has a cell in the
\* output, and a call with one direction has a cell for it at every
\* configured frequency.
C1_BelowHorizonZero ==
    (bpc = "returned" /\ resp.err = "none") =>
        \A d \in BeamDirs :
            /\ \E j \in 1..self_freqs.shape[2] : BeamCells(d, j) # {}
            /\ Cardinality(BeamDirs) = 1 =>
                  \A j \in 1..self_freqs.shape[2] : BeamCells(d, j) # {}
            /\ BeamNz(d) <= 0 =>
                  \A j \in 1..self_freqs.shape[2] :
                      \A i \in BeamCells(d, j) : resp.at[i] = 0

\* a call with a direction above and one below the horizon returned: the one
\* above has a non-zero response, the one below (whose sinc product is not
\* zero) has 0
C1_Witness ==
    /\ bpc = "returned"
    /\ resp.err = "none"
    /\ self_freqs.shape[2] = 1
    /\ xyz.shape = <<2, 3>>
    /\ BeamNz(<<1>>) > 0
    /\ BeamNz(<<2>>) < 0
    /\ xyz.at[<<2, 1>>] = 0
    /\ resp.at[<<1, 1>>] # 0
    /\ resp.at[<<1, 2>>] = 0

\* C2: for N frequencies and an M x 3 array of directions, response succeeds
\* and returns an array of shape N x M.
C2_ShapeFreqByDir ==
    (bpc = "returned" /\ Len(xyz.shape) = 2) =>
        /\ resp.err = "none"
        /\ resp.shape = <<self_freqs.shape[2], xyz.shape[1]>>

\* C14: DsihBeam construction hands Beam2DGaussian one half-width per
\* configured frequency, w = 1.22 * (c / frequency in Hz) / diameter (here
\* w * f[MHz] * D = 1.22 * c up to the dropped fractions), and the same
\* array as the x-width and as the y-width.
C14_DishWidths ==
    bpc = "dish" =>
        /\ self_xwidth = self_ywidth
        /\ self_xwidth.shape = <<1, Len(arg_freqs)>>
        /\ \A i \in 1..Len(arg_freqs) :
              LET w == self_xwidth.at[<<1, i>>]
                  f == arg_freqs[i]
                  D == arg_diameter
              IN /\ w * f * D <= 122 * (const_c \div 100)
                 /\ w * f * D > 122 * (const_c \div 100) - 1220 * f - f * D

\* 700, 750 and 800 MHz with a 6 m dish: 0.4 m at 750 MHz gives a half-width
\* of 0.0813 rad on both axes
C14_Witness ==
    /\ bpc = "dish"
    /\ arg_freqs = <<700, 750, 800>>
    /\ arg_diameter = 6
    /\ self_xwidth.at[<<1, 2>>] = 81333
    /\ self_ywidth.at[<<1, 2>>] = 81333

(***************************************************************************)
(* Properties of the conditioning step, checked under Spec.                *)
(***************************************************************************)
NsOn(t) == in_ns.present /\ t <= Len(in_ns.v) /\ in_ns.v[t]
NsOff == WhereFalse(in_ns.v)

\* C3: with neither flag_mask nor flag_ns set, the conditioned array is the
\* array that entered the step, element for element, and no copy of it.
C3_PassThroughIdentity ==
    (pc = "done" /\ ~flag_mask /\ ~flag_ns) =>
        /\ vis1.kind = "ndarray"
        /\ vis1.ref # "copy"
        /\ vis1.arr = loc_vis

C3_Witness ==
    /\ pc = "done"
    /\ task = "Plot"
    /\ ~flag_mask /\ ~flag_ns /\ interpolate_ns
    /\ in_ns.present /\ \E t \in 1..Len(in_ns.v) : in_ns.v[t]
    /\ \E i \in DOMAIN in_mask.at : in_mask.at[i]
    /\ vis1.kind = "ndarray"
    /\ vis1.arr = loc_vis

\* C4: after a successful interpolation every sample at an "off" time equals
\* the input sample, every sample at an "on" time is the spline built from
\* the off samples of the same channel of the input (real and imaginary part
\* apart), and an input that is a straight line in time comes back unchanged.
C4_InterpolateOnFromOff ==
    (pc = "done" /\ task = "Plot" /\ ~flag_mask /\ flag_ns /\ interpolate_ns
       /\ in_ns.present /\ raised = "none") =>
        /\ vis1.kind = "ndarray"
        /\ vis1.arr.shape = loc_vis.shape
        /\ \A i \in DOMAIN loc_vis.at :
              IF NsOn(i[1])
              THEN LET yr == [k \in 1..Len(NsOff) |->
                                RealPart(loc_vis.dtype, loc_vis.at[<<NsOff[k], i[2]>>])]
                       yi == [k \in 1..Len(NsOff) |->
                                ImagPart(loc_vis.dtype, loc_vis.at[<<NsOff[k], i[2]>>])]
                   IN vis1.arr.at[i] =
                        IF loc_vis.dtype = "complex"
                        THEN Cplx(SplineEval(NsOff, yr, i[1]), SplineEval(NsOff, yi, i[1]))
                        ELSE SplineEval(NsOff, yr, i[1])
              ELSE vis1.arr.at[i] = loc_vis.at[i]
        /\ in_vis \in {Vis2("ramp"), Vis2("real")} => vis1.arr = loc_vis

\* the ramp input, noise source on at the first time only: the first row was
\* rebuilt from the four others and equals the ramp
C4_Witness ==
    /\ pc = "done" /\ task = "Plot"
    /\ ~flag_mask /\ flag_ns /\ interpolate_ns
    /\ raised = "none"
    /\ in_vis = Vis2("ramp")
    /\ in_ns.present /\ Len(in_ns.v) = NTime /\ in_ns.v[1]
    /\ vis1.kind = "ndarray"
    /\ vis1.ref = "copy"
    /\ vis1.arr = loc_vis

\* C5: in noise-flag mode without interpolation (the noise source on at some
\* time), for complex and real arrays alike, the call yields an array holding
\* the not-a-number sentinel at every sample of an "on" time and the input
\* value elsewhere.
C5_FlagNsSentinel ==
    (pc = "done" /\ ~flag_mask /\ flag_ns /\ ~interpolate_ns
       /\ in_ns.present /\ Len(in_ns.v) = NTime
       /\ \E t \in 1..NTime : in_ns.v[t]) =>
        /\ vis1.kind = "ndarray"
        /\ \A i \in DOMAIN loc_vis.at :
              vis1.arr.at[i] =
                 IF NsOn(i[1])
                 THEN (IF loc_vis.dtype = "complex" THEN ComplexNaN ELSE NaN)
                 ELSE loc_vis.at[i]

\* C6: when a call has ended, in any mode and however it ended, the caller's
\* visibility array, mask and noise indicator hold what they held at the call.
C6_InputsNotMutated ==
    pc = "done" => /\ arg_vis = in_vis
                   /\ arg_mask = in_mask
                   /\ ts_ns_on = in_ns

\* an interpolation that wrote into vis1, with vis1 made from the caller's
\* own array
C6_Witness ==
    /\ pc = "done" /\ task = "Plot"
    /\ ~flag_mask /\ flag_ns /\ interpolate_ns
    /\ raised = "none"
    /\ loc_vis = in_vis
    /\ vis1.kind = "ndarray"
    /\ vis1.arr # in_vis
    /\ arg_vis = in_vis

\* the frequencies among fs whose sample at time t, polarization p, is not
\* masked in the caller's mask
Unmasked(t, fs, p) == {f \in fs : ~in_mask.at[<<t, f, p>>]}

C7_LineOK(line, p) ==
    \A t \in drawn.times :
        LET live == Unmasked(t, drawn.freqs, p)
        IN IF live = {}
           THEN line[t] = Masked
           ELSE /\ line[t].k = "mean"
                /\ line[t].n = Cardinality(live)
                /\ line[t].sum = SumOver(live, [f \in live |-> loc_vis.at[<<t, f, p>>].v])

\* C7: in mask mode (mask of the array's shape) the conditioned array marks
\* exactly the samples the mask marks and stores the values that entered the
\* step; a mean over samples that are all masked is "masked", and any other
\* mean is taken over the unmasked samples alone.
C7_MaskModeInvalid ==
    (pc = "done" /\ flag_mask /\ in_mask.shape = in_vis.shape) =>
        /\ vis1.kind = "ma"
        /\ vis1.arr = loc_vis
        /\ \A i \in DOMAIN in_mask.at : vis1.mask.at[i] = in_mask.at[i]
        /\ (task = "PlotVvsTime" /\ drawn.kind = "lines") =>
              /\ C7_LineOK(drawn.hh, 1)
              /\ C7_LineOK(drawn.vv, 2)

\* a drawn time whose first-polarization samples are all masked, next to one
\* that has unmasked samples
C7_Witness ==
    /\ pc = "done" /\ task = "PlotVvsTime" /\ flag_mask
    /\ drawn.kind = "lines"
    /\ \E t \in drawn.times : drawn.hh[t] = Masked /\ drawn.vv[t].k = "mean"
    /\ \E t \in drawn.times : drawn.hh[t].k = "mean"

\* C8 as stated: a call that requests mask flagging and noise-source flagging
\* together raises InvalidMode and returns no conditioned array.
C8_ConflictRaises ==
    (pc = "done" /\ flag_mask /\ flag_ns) =>
        /\ raised = "InvalidMode"
        /\ vis1.kind = "none"

\* C8 amended: with both flags set the step applies mask mode alone: the
\* result is the masked array over the unaltered samples (or mask mode's own
\* MaskError for a mask of another size), never a noise-flagged array.
C8_MaskTakesPrecedence ==
    (pc = "done" /\ flag_mask /\ flag_ns) =>
        /\ raised # "InvalidMode"
        /\ vis1.kind = "ma" \/ (vis1.kind = "none" /\ raised = "MaskError")
        /\ vis1.kind = "ma" => vis1.ref # "copy" /\ vis1.arr = loc_vis
        /\ in_mask.shape = in_vis.shape => vis1.kind = "ma" /\ vis1.mask = in_mask

C8_Witness ==
    /\ pc = "done" /\ task = "Plot"
    /\ flag_mask /\ flag_ns /\ interpolate_ns
    /\ in_ns.present /\ Len(in_ns.v) = NTime /\ in_ns.v[1]
    /\ vis1.kind = "ma"
    /\ vis1.arr = loc_vis
    /\ raised = "none"

\* C9: an interpolation whose "off" set has fewer points than the spline
\* needs (none included) ends with an error and yields no array; with every
\* off index inside the array the error is the spline constructor's.
C9_TooFewOffRaises ==
    (pc = "done" /\ task = "Plot" /\ ~flag_mask /\ flag_ns /\ interpolate_ns
       /\ in_ns.present /\ Len(NsOff) <= SplineK) =>
        /\ raised # "none"
        /\ vis1.kind = "none"
        /\ drawn = NoDraw
        /\ (\A k \in 1..Len(NsOff) : NsOff[k] <= NTime) => raised = "SplineError"

C9_Witness ==
    /\ pc = "done" /\ task = "Plot"
    /\ ~flag_mask /\ flag_ns /\ interpolate_ns
    /\ in_ns.present /\ Len(in_ns.v) = NTime /\ Len(NsOff) = SplineK
    /\ raised = "SplineError"
    /\ vis1.kind = "none"

\* C10: a call that reads a mask whose shape differs from the visibility
\* shape (mask mode), or a noise indicator whose length differs from the time
\* dimension (noise-flag mode), fails and yields no output.
C10_ShapeMismatchFails ==
    (pc = "done"
       /\ \/ flag_mask /\ in_mask.shape # in_vis.shape
          \/ ~flag_mask /\ flag_ns /\ in_ns.present
               /\ Len(in_ns.v) # in_vis.shape[1]) =>
        /\ raised # "none"
        /\ vis1.kind = "none"

\* C11: interpolating the array an interpolation gave, with the same noise
\* indicator, succeeds and gives that array again, sample for sample.
C11_InterpolateIdempotent ==
    (pc = "again" /\ ~flag_mask /\ flag_ns /\ interpolate_ns) =>
        /\ raised = "none"
        /\ vis1.kind = "ndarray"
        /\ vis1.ref = "copy"
        /\ vis1.arr = in_vis

\* the second pass over an array whose "on" rows the first pass filled with
\* spline values of data that is no straight line
C11_Witness ==
    /\ pc = "again" /\ ~flag_mask /\ flag_ns /\ interpolate_ns
    /\ raised = "none"
    /\ \E t \in 1..NTime : NsOn(t) /\ in_vis.at[<<t, 1>>].re.k = "spl"
    /\ vis1.arr = in_vis

\* the errors the conditioning step can end with
ConditioningErrors == {"TypeError", "SplineError", "MaskError"}

\* C13: a call whose conditioning step raised yields no conditioned array,
\* partial or whole, draws nothing, and leaves the caller's visibility array,
\* mask and noise indicator as they were at the call.
C13_AllOrNothing ==
    (pc = "done"
       /\ \/ raised \in ConditioningErrors
          \/ task = "Plot" /\ raised # "none") =>
        /\ vis1.kind = "none"
        /\ drawn = NoDraw
        /\ arg_vis = in_vis
        /\ arg_mask = in_mask
        /\ ts_ns_on = in_ns

\* an interpolation over the caller's own array (no conj) that failed inside
\* the channel loop, after vis.copy() was made
C13_Witness ==
    /\ pc = "done" /\ task = "Plot"
    /\ ~flag_mask /\ flag_ns /\ interpolate_ns
    /\ raised = "SplineError"
    /\ loc_vis = in_vis
    /\ \E t \in 1..NTime : NsOn(t)
    /\ vis1.kind = "none"
    /\ arg_vis = in_vis

\* C18: with flag_ns set, flag_mask not, and no 'ns_on' in the timestream, the
\* conditioned array is the array that entered the step (no copy, no sample
\* changed) whatever interpolate_ns is, and the step raises nothing: Plot.plot
\* ends normally, the other tasks at most with the crop's IndexError.
C18_NoIndicatorPassThrough ==
    (pc = "done" /\ ~flag_mask /\ flag_ns /\ ~in_ns.present) =>
        /\ vis1.kind = "ndarray"
        /\ vis1.ref # "copy"
        /\ vis1.arr = loc_vis
        /\ raised \notin ConditioningErrors \cup {"KeyError"}
        /\ task = "Plot" => raised = "none"

C18_Witness ==
    /\ pc = "done" /\ task = "Plot"
    /\ ~flag_mask /\ flag_ns /\ interpolate_ns
    /\ ~in_ns.present
    /\ vis1.kind = "ndarray"
    /\ vis1.arr = loc_vis
    /\ raised = "none"

(***************************************************************************)
(* Properties of the crop and of the shared axis limits.                   *)
(***************************************************************************)
CallEnded == pc \in {"done", "pointed"}
TimeStreamTasks == {"PlotVvsTime", "PlotPointingvsTime"}

\* a time (a channel) of the caller's mask with a sample that is not masked
GoodTime(t) == \E f \in 1..NFreq, p \in 1..NPol : ~in_mask.at[<<t, f, p>>]
GoodChannel(f) == \E t \in 1..NTime, p \in 1..NPol : ~in_mask.at[<<t, f, p>>]

\* from the first good index through the last, both included
GoodTimeRange ==
    {t \in 1..NTime : /\ \E a \in 1..t : GoodTime(a)
                      /\ \E b \in t..NTime : GoodTime(b)}
GoodChannelRange ==
    {f \in 1..NFreq : /\ \E a \in 1..f : GoodChannel(a)
                      /\ \E b \in f..NFreq : GoodChannel(b)}

\* C16: what PlotMeerKAT.plot, PlotVvsTime.plot and PlotPointingvsTime.plot
\* draw covers exactly the times from the first not-fully-masked time
\* through the last, both included (and the channels likewise), so no index
\* with an unmasked sample is dropped.
C16_CropKeepsGoodRange ==
    (CallEnded /\ drawn.kind \in {"mesh", "lines", "pointing"}) =>
        /\ drawn.times = GoodTimeRange
        /\ drawn.kind # "pointing" => drawn.freqs = GoodChannelRange

\* the x limits of one call: x_axis[0] and x_axis[-1] of the cropped axis
XLower(d) == (CHOOSE t \in d.times : \A u \in d.times : t <= u) - 1
XUpper(d) == (CHOOSE t \in d.times : \A u \in d.times : t >= u) - 1

\* C17: in a PlotTimeStream task a call that completes leaves self.xmin the
\* smaller of its value before and the call's lower x limit, and self.xmax
\* the larger of its value before and the call's upper x limit; no other step
\* changes them.  From 1e19 and -1e19 that makes them the minimum and maximum
\* over the calls so far, in whatever order they came.
C17_LimitsAccumulate ==
    [][IF pc = "idle" /\ pc' \in {"done", "pointed"}
          /\ task \in TimeStreamTasks /\ raised' = "none"
       THEN /\ self_xmin' = (IF XLower(drawn') < self_xmin
                              THEN XLower(drawn') ELSE self_xmin)
            /\ self_xmax' = (IF XUpper(drawn') > self_xmax
                              THEN XUpper(drawn') ELSE self_xmax)
       ELSE /\ self_xmin' = self_xmin
            /\ self_xmax' = self_xmax]_vars

\* a completed call that starts later and ends later than an earlier one:
\* the lower limit is the earlier call's, the upper limit its own
C17_Witness ==
    /\ pc = "pointed" /\ raised = "none"
    /\ self_xmin < XLower(drawn)
    /\ self_xmax = XUpper(drawn)
    /\ XLower(drawn) < XUpper(drawn)

\* what the conditioning step gives when the call runs alone, on a task just
\* constructed with the same parameters
AloneOutcome ==
    LET fresh == IF loc_vis = in_vis THEN NoArray ELSE loc_vis
        h0 == Heap(in_vis, fresh, in_mask, in_ns)
        vis == IF loc_vis = in_vis THEN "arg" ELSE "new"
    IN CASE task = "Plot" ->
              Plot_condition(h0, vis, flag_mask, flag_ns, interpolate_ns)
         [] task = "PlotMeerKAT" ->
              PlotMeerKAT_condition(h0, vis, flag_mask, flag_ns)
         [] OTHER -> PlotVvsTime_condition(h0, vis, flag_mask, flag_ns)

Listed(bl, q) ==
    \E k \in 1..Len(q) : q[k] = bl \/ q[k] = <<bl[2], bl[1]>>

\* C15: Plot.plot draws nothing for a baseline that bl_excl lists (in either
\* order), whatever bl_incl is, 'all' included; and it draws a baseline only
\* if bl_incl is 'all' or lists it (in either order).
C15_BaselineSelection ==
    (pc = "done" /\ task = "Plot") =>
        /\ Listed(in_bl, bl_excl) => drawn = NoDraw
        /\ drawn # NoDraw => bl_incl = BlAll \/ Listed(in_bl, bl_incl.v)

=============================================================================
